---- MODULE Spec2Model ----
(***************************************************************************)
(* Model of serialhunter's "prettyascii" codec                             *)
(* (src/src/serialhunter/pretty_unicode_codec.py) and of the "uxreplace"   *)
(* error handler (src/src/serialhunter/x_code_escape_errors.py).           *)
(*                                                                         *)
(* A byte is an integer 0..255, a character is its Unicode code point, a   *)
(* bytes object is a sequence of bytes and a str a sequence of characters. *)
(***************************************************************************)
EXTENDS Integers, Sequences, FiniteSets, TLC

(***************************************************************************)
(* Bounds of the model.                                                    *)
(***************************************************************************)
\* longest total text fed to one encoder session between two resets
MaxFed == 3
\* longest chunk of one encoder feed when the fed text is not recorded
MaxChunk == 2
\* longest total byte string fed to one decoder session between two resets
MaxDFed == 4
\* longest sampled input of the one-block (pure function) specifications
MaxLen == 3
\* longest object handed to the error handler
MaxObj == 3
MaxStep == 1
MaxText == 4

(***************************************************************************)
(* Character constants.                                                    *)
(***************************************************************************)
\* serialhunter/__init__.py: BYTESTRING_CHARACTER, the escape prefix U+02DF
BYTESTRING_CHARACTER == 735
\* serialhunter/__init__.py: NEWLINE_CHARACTER, the continuation mark U+21B2
NEWLINE_CHARACTER == 8626
\* "\n" and "\r"
LF == 10
CR == 13
\* U+240D and U+240A, the glyphs the table gives to bytes 10 and 13
GLYPH_240D == 9229
GLYPH_240A == 9226
\* U+2192, the visible companion of the tab
TAB_ARROW == 8594

Bytes == 0..255

(***************************************************************************)
(* Hexadecimal formatting and parsing.                                     *)
(***************************************************************************)
\* one hex digit 0..15 as a lowercase character
LowerDigit(d) == IF d < 10 THEN 48 + d ELSE 97 + (d - 10)

\* one hex digit 0..15 as an uppercase character
UpperDigit(d) == IF d < 10 THEN 48 + d ELSE 65 + (d - 10)

RECURSIVE FormatX(_)
\* f"{n:x}": lowercase hex, no padding
FormatX(n) == IF n < 16 THEN <<LowerDigit(n)>>
              ELSE Append(FormatX(n \div 16), LowerDigit(n % 16))

\* bytes([b]).hex().upper(): two uppercase hex digits, zero padded
HexUpper2(b) == <<UpperDigit(b \div 16), UpperDigit(b % 16)>>

\* str.upper() restricted to the characters of the model: a-z become A-Z
UpperChar(c) == IF c \in 97..122 THEN c - 32 ELSE c

UpperStr(s) == [i \in 1..Len(s) |-> UpperChar(s[i])]

\* value of a hex digit character, -1 when it is none (lowercase only)
HexVal_lower(c) ==
    IF c \in 48..57 THEN c - 48
    ELSE IF c \in 97..102 THEN c - 87
    ELSE -1

\* value of a hex digit character as int(_, 16) reads it, -1 when it is none
HexVal(c) ==
    IF c \in 48..57 THEN c - 48
    ELSE IF c \in 97..102 THEN c - 87
    ELSE IF c \in 65..70 THEN c - 55
    ELSE -1

\* the characters int() strips from both ends of its argument
PyWhitespace == {9, 10, 11, 12, 13, 28, 29, 30, 31, 32, 133, 160}

\* int(buf, 16).to_bytes(1, "little") for a buffer of one or two characters:
\* digits, with optional surrounding whitespace and an optional sign.
IntBase16(buf) ==
    IF Len(buf) = 1 THEN
        IF HexVal(buf[1]) >= 0
        THEN [err |-> "none", val |-> HexVal(buf[1])]
        ELSE [err |-> "ValueError", val |-> 0]
    ELSE IF Len(buf) = 2 THEN
        LET a == buf[1]
            b == buf[2]
        IN  IF HexVal(a) >= 0 /\ HexVal(b) >= 0
            THEN [err |-> "none", val |-> 16 * HexVal(a) + HexVal(b)]
            ELSE IF (a \in PyWhitespace \/ a = 43) /\ HexVal(b) >= 0
            THEN [err |-> "none", val |-> HexVal(b)]
            ELSE IF HexVal(a) >= 0 /\ b \in PyWhitespace
            THEN [err |-> "none", val |-> HexVal(a)]
            ELSE IF a = 45 /\ HexVal(b) = 0
            THEN [err |-> "none", val |-> 0]
            ELSE IF a = 45 /\ HexVal(b) > 0
            THEN [err |-> "OverflowError", val |-> 0]
            ELSE [err |-> "ValueError", val |-> 0]
    ELSE [err |-> "ValueError", val |-> 0]

(***************************************************************************)
(* The mapping table.                                                      *)
(***************************************************************************)
ESCAPE_SEQUENCES == [n \in Bytes |-> <<BYTESTRING_CHARACTER>> \o FormatX(n)]

BASE_ASCII == [n \in 0..127 |-> <<n>>]

CHAR_UPDATE_DICT ==
    (0 :> <<9216>>) @@ (8 :> <<9224>>) @@ (9 :> <<9, TAB_ARROW>>) @@
    (10 :> <<GLYPH_240D>>) @@ (11 :> <<9227>>) @@ (12 :> <<9228>>) @@
    (13 :> <<GLYPH_240A>>) @@ (14 :> <<9230>>) @@ (15 :> <<9231>>) @@
    (28 :> <<9244>>) @@ (29 :> <<9245>>) @@ (30 :> <<9246>>) @@
    (31 :> <<9247>>) @@ (32 :> <<183>>) @@ (36 :> <<9252>>) @@
    (127 :> <<9249>>)

\* ESCAPE_SEQUENCES.copy(), updated with BASE_ASCII, then CHAR_UPDATE_DICT
byte_to_chars ==
    [b \in Bytes |->
        IF b \in DOMAIN CHAR_UPDATE_DICT THEN CHAR_UPDATE_DICT[b]
        ELSE IF b \in DOMAIN BASE_ASCII THEN BASE_ASCII[b]
        ELSE ESCAPE_SEQUENCES[b]]

\* the one-character values of byte_to_chars
GlyphChars == {byte_to_chars[b][1] : b \in {k \in Bytes : Len(byte_to_chars[k]) = 1}}

\* char_to_bytes built from byte_to_chars alone, without the BASE_ASCII items
char_to_bytes_noascii ==
    [c \in GlyphChars |->
        CHOOSE b \in Bytes : /\ byte_to_chars[b] = <<c>>
                             /\ \A k \in Bytes : byte_to_chars[k] = <<c>> => k <= b]

\* the dict comprehension over byte_to_chars.items() + BASE_ASCII.items(),
\* keeping one-character keys; a later item overwrites an earlier one
char_to_bytes ==
    [c \in GlyphChars \cup (0..127) |->
        IF c \in 0..127 THEN c
        ELSE CHOOSE b \in Bytes : /\ byte_to_chars[b] = <<c>>
                                  /\ \A k \in Bytes : byte_to_chars[k] = <<c>> => k <= b]

(***************************************************************************)
(* encode_pretty: text to bytes.                                           *)
(* The loop state is a record: out (out_bytes), the three carried values   *)
(* skip_next, skip_newlines, escape_count, the local escape_buffer, and    *)
(* err, the exception that ended the loop ("none" while it runs).          *)
(***************************************************************************)
\* the newline options without the two glyphs
NewlineOptions_plain == {CR, LF}

\* ["\r", "\n", U+240D, U+240A]
NewlineOptions == {CR, LF, GLYPH_240D, GLYPH_240A}

\* the newline branch without the suppression flag being set
NewlineStep_nosuppress(st) ==
    IF ~st.skip_newlines THEN [st EXCEPT !.out = Append(@, LF)] ELSE st

\* the newline branch that writes a byte whatever the suppression flag is
NewlineStep_always(st) ==
    [st EXCEPT !.out = Append(@, LF), !.skip_newlines = TRUE]

\* if not skip_newlines: out_bytes += b"\n"; skip_newlines = True
NewlineStep(st) ==
    IF ~st.skip_newlines
    THEN [st EXCEPT !.out = Append(@, LF), !.skip_newlines = TRUE]
    ELSE st

\* the capture branch: one more character of the escape, parsed when complete
EscapeStep(st, c) ==
    LET buf == Append(st.escape_buffer, c)
        cnt == st.escape_count - 1
        n   == IntBase16(buf)
    IN  IF cnt # 0
        THEN [st EXCEPT !.escape_buffer = buf, !.escape_count = cnt]
        ELSE IF n.err # "none"
        THEN [st EXCEPT !.escape_buffer = buf, !.escape_count = cnt, !.err = n.err]
        ELSE [st EXCEPT !.out = Append(@, n.val), !.escape_buffer = <<>>,
                        !.escape_count = cnt]

\* the tab companion is dropped; any other character is looked up
PlainStep(st, c) ==
    IF c = TAB_ARROW THEN st
    ELSE IF c \in DOMAIN char_to_bytes
    THEN [st EXCEPT !.out = Append(@, char_to_bytes[c])]
    ELSE [st EXCEPT !.err = "KeyError"]

\* one iteration in which a prefix met during a capture starts the capture
\* again
EncodeChar_restart(st, c) ==
    IF st.skip_next THEN [st EXCEPT !.skip_next = FALSE]
    ELSE IF c = NEWLINE_CHARACTER THEN [st EXCEPT !.skip_next = TRUE]
    ELSE IF c \in NewlineOptions THEN NewlineStep(st)
    ELSE LET s1 == [st EXCEPT !.skip_newlines = FALSE]
         IN  IF c = BYTESTRING_CHARACTER
             THEN [s1 EXCEPT !.escape_count = 2, !.escape_buffer = <<>>]
             ELSE IF s1.escape_count # 0 THEN EscapeStep(s1, c)
             ELSE PlainStep(s1, c)

\* one iteration in which a skipped character clears the suppression flag
EncodeChar_skipclears(st, c) ==
    IF st.skip_next THEN [st EXCEPT !.skip_next = FALSE, !.skip_newlines = FALSE]
    ELSE IF c = NEWLINE_CHARACTER THEN [st EXCEPT !.skip_next = TRUE]
    ELSE IF c \in NewlineOptions THEN NewlineStep(st)
    ELSE LET s1 == [st EXCEPT !.skip_newlines = FALSE]
         IN  IF c = BYTESTRING_CHARACTER
             THEN IF s1.escape_count > 0
                  THEN [s1 EXCEPT !.err = "TypeError"]
                  ELSE [s1 EXCEPT !.escape_count = 2]
             ELSE IF s1.escape_count # 0 THEN EscapeStep(s1, c)
             ELSE PlainStep(s1, c)

\* one iteration of the for loop.  The raise of the nested prefix builds
\* UnicodeEncodeError with keyword arguments, which itself raises TypeError.
EncodeChar(st, c) ==
    IF st.skip_next THEN [st EXCEPT !.skip_next = FALSE]
    ELSE IF c = NEWLINE_CHARACTER THEN [st EXCEPT !.skip_next = TRUE]
    ELSE IF c \in NewlineOptions THEN NewlineStep(st)
    ELSE LET s1 == [st EXCEPT !.skip_newlines = FALSE]
         IN  IF c = BYTESTRING_CHARACTER
             THEN IF s1.escape_count > 0
                  THEN [s1 EXCEPT !.err = "TypeError"]
                  ELSE [s1 EXCEPT !.escape_count = 2]
             ELSE IF s1.escape_count # 0 THEN EscapeStep(s1, c)
             ELSE PlainStep(s1, c)

RECURSIVE EncodeRange(_, _, _, _)
\* the for loop over data[lo..hi], in order (the range is halved only to keep
\* the evaluation shallow); an exception ends the loop
EncodeRange(st, data, lo, hi) ==
    IF lo > hi \/ st.err # "none" THEN st
    ELSE IF lo = hi THEN EncodeChar(st, data[lo])
    ELSE LET mid == (lo + hi) \div 2
         IN  EncodeRange(EncodeRange(st, data, lo, mid), data, mid + 1, hi)

encode_pretty(data, skip_next, skip_newlines, escape_count) ==
    EncodeRange([out |-> <<>>, skip_next |-> skip_next,
                 skip_newlines |-> skip_newlines, escape_count |-> escape_count,
                 escape_buffer |-> <<>>, err |-> "none"], data, 1, Len(data))

\* encode_pretty(data)[0]; the codec entry point starts from the defaults
encode_pretty_fn(data) == encode_pretty(data, FALSE, FALSE, 0)

(***************************************************************************)
(* decode_pretty: bytes to text.                                           *)
(***************************************************************************)
\* one iteration with the break written after every newline byte
DecodeByte_eager(st, b) ==
    LET is_newline == b \in {10, 13}
    IN  [out |-> st.out \o byte_to_chars[b] \o (IF is_newline THEN <<LF>> ELSE <<>>),
         was_newline |-> is_newline]

\* one iteration of the for loop
DecodeByte(st, b) ==
    LET is_newline == b \in {10, 13}
        brk == IF ~is_newline /\ st.was_newline THEN <<LF>> ELSE <<>>
    IN  [out |-> st.out \o brk \o byte_to_chars[b], was_newline |-> is_newline]

RECURSIVE DecodeRange(_, _, _, _)
\* the for loop over data[lo..hi], in order (the range is halved only to keep
\* the evaluation shallow, and the test on left makes the first half be
\* evaluated before the second)
DecodeRange(st, data, lo, hi) ==
    IF lo > hi THEN st
    ELSE IF lo = hi THEN DecodeByte(st, data[lo])
    ELSE LET mid == (lo + hi) \div 2
             left == DecodeRange(st, data, lo, mid)
         IN  IF left.was_newline \in BOOLEAN
             THEN DecodeRange(left, data, mid + 1, hi)
             ELSE left

decode_pretty(data, was_newline) ==
    DecodeRange([out |-> <<>>, was_newline |-> was_newline], data, 1, Len(data))

\* decode_pretty(data)[0]
decode_pretty_fn(data) == decode_pretty(data, FALSE).out

(***************************************************************************)
(* PrettyIncrementalEncoder and PrettyIncrementalDecoder.                  *)
(* A call is modelled by a record: err is the exception it raises ("none"  *)
(* when it returns), ret the value it returns, the other fields the        *)
(* attributes of the session after it.                                     *)
(***************************************************************************)
\* encode that keeps the attributes the loop had reached when it failed
IncEncode_partial(data, final, sn, snl, ec) ==
    LET r == encode_pretty(data, sn, snl, ec)
    IN  IF r.err # "none"
        THEN [err |-> r.err, ret |-> <<>>, skip_next |-> r.skip_next,
              skip_newlines |-> r.skip_newlines, escape_count |-> r.escape_count]
        ELSE IF final /\ r.escape_count # 0
        THEN [err |-> "RuntimeError", ret |-> <<>>, skip_next |-> r.skip_next,
              skip_newlines |-> r.skip_newlines, escape_count |-> r.escape_count]
        ELSE [err |-> "none", ret |-> r.out, skip_next |-> r.skip_next,
              skip_newlines |-> r.skip_newlines, escape_count |-> r.escape_count]

\* encode with the check of the dangling escape made whatever final is
IncEncode_alwaysfinal(data, final, sn, snl, ec) ==
    LET r == encode_pretty(data, sn, snl, ec)
    IN  IF r.err # "none"
        THEN [err |-> r.err, ret |-> <<>>, skip_next |-> sn,
              skip_newlines |-> snl, escape_count |-> ec]
        ELSE IF r.escape_count # 0
        THEN [err |-> "RuntimeError", ret |-> <<>>, skip_next |-> r.skip_next,
              skip_newlines |-> r.skip_newlines, escape_count |-> r.escape_count]
        ELSE [err |-> "none", ret |-> r.out, skip_next |-> r.skip_next,
              skip_newlines |-> r.skip_newlines, escape_count |-> r.escape_count]

\* PrettyIncrementalEncoder.encode: an exception of encode_pretty leaves the
\* attributes as they were (the tuple assignment is never made); the check of
\* final comes after the assignment
IncEncode(data, final, sn, snl, ec) ==
    LET r == encode_pretty(data, sn, snl, ec)
    IN  IF r.err # "none"
        THEN [err |-> r.err, ret |-> <<>>, skip_next |-> sn,
              skip_newlines |-> snl, escape_count |-> ec]
        ELSE IF final /\ r.escape_count # 0
        THEN [err |-> "RuntimeError", ret |-> <<>>, skip_next |-> r.skip_next,
              skip_newlines |-> r.skip_newlines, escape_count |-> r.escape_count]
        ELSE [err |-> "none", ret |-> r.out, skip_next |-> r.skip_next,
              skip_newlines |-> r.skip_newlines, escape_count |-> r.escape_count]

Bit(b) == IF b THEN 1 ELSE 0

\* PrettyIncrementalEncoder.getstate()[1]
EncGetState(sn, snl, ec) == Bit(sn) + Bit(snl) * 2 + ec * 4

\* PrettyIncrementalEncoder.setstate(("", statevars))
EncSetState(statevars) ==
    [skip_next |-> (statevars % 2) # 0,
     skip_newlines |-> ((statevars \div 2) % 4) # 0,
     escape_count |-> statevars \div 4]

\* decode that starts every call from was_newline = False
IncDecode_forgetful(data, final, wn) ==
    LET r == decode_pretty(data, FALSE)
    IN  [ret |-> r.out, was_newline |-> r.was_newline]

\* PrettyIncrementalDecoder.decode
IncDecode(data, final, wn) ==
    LET r == decode_pretty(data, wn)
    IN  [ret |-> r.out, was_newline |-> r.was_newline]

\* PrettyIncrementalDecoder.getstate()[1]
DecGetState(wn) == Bit(wn)

\* PrettyIncrementalDecoder.setstate((b"", statevars))
DecSetState(statevars) == statevars # 0

(***************************************************************************)
(* x_code_escape_errors, the branch of a decoding error (e.object is       *)
(* bytes).  start and end are Python indices: the range is object[start:   *)
(* end].                                                                   *)
(***************************************************************************)
RECURSIVE HexUpperAll(_)
\* bytes.hex().upper()
HexUpperAll(bs) ==
    IF bs = <<>> THEN <<>> ELSE HexUpper2(Head(bs)) \o HexUpperAll(Tail(bs))

x_code_escape_errors(object, start, end) ==
    [sub |-> <<BYTESTRING_CHARACTER>> \o HexUpperAll(SubSeq(object, start + 1, end)),
     resume |-> end]

RECURSIVE AsciiDecodeFrom(_, _)
\* bytes.decode("ascii", "uxreplace"): the ASCII decoder reports each byte
\* above 127 alone, as the range [i, i+1), appends the handler's replacement
\* and goes on at the index the handler returns
AsciiDecodeFrom(object, i) ==
    IF i >= Len(object) THEN <<>>
    ELSE IF object[i + 1] < 128
    THEN <<object[i + 1]>> \o AsciiDecodeFrom(object, i + 1)
    ELSE LET h == x_code_escape_errors(object, i, i + 1)
         IN  h.sub \o AsciiDecodeFrom(object, h.resume)

ascii_decode_uxreplace(object) == AsciiDecodeFrom(object, 0)

(***************************************************************************)
(* Inputs.                                                                 *)
(***************************************************************************)
SeqsUpTo(S, n) == UNION {[1..k -> S] : k \in 0..n}

\* characters fed to an encoder session: the escape prefix, the continuation
\* mark, "\n", the hex digit c and a character outside the table (U+2603)
SessionChars == {BYTESTRING_CHARACTER, NEWLINE_CHARACTER, LF, 99, 9731}

\* characters of the recorded sessions: those, a newline glyph, the digit 8
\* and the letter z
EncChars == SessionChars \cup {GLYPH_240A, 56, 122}

\* bytes fed to a decoder session
DecBytes == {LF, CR, 9, 65, 200}

\* characters fed one at a time: the four newline options, the prefix, the
\* continuation mark, the hex digits c and 8, the letter z, a space, the tab
\* companion and a character outside the table (U+2603)
CharSample ==
    NewlineOptions \cup {BYTESTRING_CHARACTER, NEWLINE_CHARACTER, 99, 56, 122, 32,
                         TAB_ARROW, 9731}

\* characters of the short texts encoded in one block: CR, LF, the
\* continuation mark, the prefix, the hex digit c and the letter A
TextChars == {CR, LF, NEWLINE_CHARACTER, BYTESTRING_CHARACTER, 99, 65}
TextInputs == SeqsUpTo(TextChars, MaxText)

\* characters and bytes fed to two sessions used side by side
PairChars == {BYTESTRING_CHARACTER, NEWLINE_CHARACTER, LF, 99}
PairBytes == {LF, 65}

\* bytes of the sampled one-block inputs
ByteSample == {0, 9, LF, CR, 32, 36, 65, 97, 128, 200, 255}

\* every_byte_pair and every_ascii_string of tests/test_pretty_codec.py
every_byte_pair == [i \in 1..256 |-> i - 1]
every_ascii_string == [i \in 1..128 |-> i - 1]

\* the byte strings the documentation names: CR LF CR LF, CR CR CR,
\* b"A\r\nB" and b"A\x00 B"
Scenarios == {<<CR, LF, CR, LF>>, <<CR, CR, CR>>, <<65, CR, LF, 66>>, <<65, 0, 32, 66>>}

ByteInputs ==
    {<<b>> : b \in Bytes} \cup {every_byte_pair} \cup Scenarios
        \cup SeqsUpTo(ByteSample, MaxLen)

AsciiSample == {9, LF, CR, 32, 36, 65, 102, 127}

AsciiInputs ==
    {<<c>> : c \in 0..127} \cup {every_ascii_string} \cup SeqsUpTo(AsciiSample, MaxLen)

\* bytes of the objects handed to the error handler
ObjSample == {65, LF, 129, 130, 226, 255}

(***************************************************************************)
(* State.                                                                  *)
(***************************************************************************)
VARIABLES
    \* PrettyIncrementalEncoder attributes
    skip_next, skip_newlines, escape_count,
    \* history of the encoder session: text fed and bytes returned since the
    \* last reset, whether every call returned, the last call (its chunk,
    \* final flag, attributes before it, return value, exception), the last
    \* operation, the value getstate returned and the attributes it packed
    efed, eout, eok, echunk, efinal, epre, eret, eerr, eop, esaved, esavedFields,
    \* PrettyIncrementalDecoder attribute
    was_newline,
    \* history of the decoder session
    dfed, dout, dchunk, dret, dop, dsaved,
    \* one-block use of the codec functions: input bytes, text, bytes encoded
    \* back, the exception of the encoding, and the position
    inBytes, txt, outBytes, res, pc,
    \* the error handler: the object and range of the error, its result, and
    \* the result of a whole ASCII decode with the handler
    obj, erange, hsub, hresume, hout, hpc,
    \* two sessions used side by side: the class of each, the attributes of
    \* each, the session of the last call, that call (its operation and the
    \* attributes before it), and the value the last getstate returned with
    \* the session it came from
    kind, sess, acted, sop, spre, ssaved

encVars == <<skip_next, skip_newlines, escape_count,
             efed, eout, eok, echunk, efinal, epre, eret, eerr, eop, esaved, esavedFields>>
decVars == <<was_newline, dfed, dout, dchunk, dret, dop, dsaved>>
fnVars == <<inBytes, txt, outBytes, res, pc>>
hndVars == <<obj, erange, hsub, hresume, hout, hpc>>
sessVars == <<kind, sess, acted, sop, spre, ssaved>>
vars == <<encVars, decVars, fnVars, hndVars, sessVars>>

EncFields == <<skip_next, skip_newlines, escape_count>>

\* PrettyIncrementalEncoder.__init__
EncInit ==
    /\ skip_next = FALSE /\ skip_newlines = FALSE /\ escape_count = 0
    /\ efed = <<>> /\ eout = <<>> /\ eok = TRUE
    /\ echunk = <<>> /\ efinal = FALSE /\ epre = <<FALSE, FALSE, 0>>
    /\ eret = <<>> /\ eerr = "none" /\ eop = "init"
    /\ esaved = <<>> /\ esavedFields = <<>>

\* PrettyIncrementalDecoder.__init__
DecInit ==
    /\ was_newline = FALSE
    /\ dfed = <<>> /\ dout = <<>> /\ dchunk = <<>> /\ dret = <<>>
    /\ dop = "init" /\ dsaved = <<>>

FnIdle ==
    inBytes = <<>> /\ txt = <<>> /\ outBytes = <<>> /\ res = "none" /\ pc = "idle"

HndIdle ==
    /\ obj = <<>> /\ erange = <<0, 0>> /\ hsub = <<>> /\ hresume = 0
    /\ hout = <<>> /\ hpc = "idle"

SessIdle ==
    /\ kind = <<>> /\ sess = <<>> /\ acted = 0 /\ sop = "idle"
    /\ spre = <<>> /\ ssaved = <<>>

(***************************************************************************)
(* Encoder session.                                                        *)
(***************************************************************************)
\* encoder.encode(data, final)
Feed(data, final) ==
    LET r == IncEncode(data, final, skip_next, skip_newlines, escape_count)
    IN  /\ skip_next' = r.skip_next
        /\ skip_newlines' = r.skip_newlines
        /\ escape_count' = r.escape_count
        /\ echunk' = data /\ efinal' = final /\ epre' = EncFields
        /\ eret' = r.ret /\ eerr' = r.err /\ eop' = "encode"
        /\ UNCHANGED <<esaved, esavedFields>>

\* a feed of a session whose whole input is recorded
EncFeed ==
    /\ \E data \in SeqsUpTo(EncChars, MaxFed - Len(efed)), final \in BOOLEAN :
          /\ Feed(data, final)
          /\ efed' = efed \o data
          /\ eout' = eout \o eret'
          /\ eok' = (eok /\ eerr' = "none")
    /\ UNCHANGED <<decVars, fnVars, hndVars, sessVars>>

\* a feed of a session of any length, its input not recorded
EncEncode ==
    /\ \E data \in SeqsUpTo(SessionChars, MaxChunk), final \in BOOLEAN :
          Feed(data, final)
    /\ UNCHANGED <<efed, eout, eok>>
    /\ UNCHANGED <<decVars, fnVars, hndVars, sessVars>>

\* a feed of a short chunk drawn from the wider sample of characters
EncStep ==
    /\ \E data \in SeqsUpTo(CharSample, MaxStep), final \in BOOLEAN :
          Feed(data, final)
    /\ UNCHANGED <<efed, eout, eok>>
    /\ UNCHANGED <<decVars, fnVars, hndVars, sessVars>>

\* PrettyIncrementalEncoder.reset
EncReset ==
    /\ skip_next' = FALSE /\ skip_newlines' = FALSE /\ escape_count' = 0
    /\ efed' = <<>> /\ eout' = <<>> /\ eok' = TRUE
    /\ echunk' = <<>> /\ efinal' = FALSE /\ epre' = EncFields
    /\ eret' = <<>> /\ eerr' = "none" /\ eop' = "reset"
    /\ UNCHANGED <<esaved, esavedFields>>
    /\ UNCHANGED <<decVars, fnVars, hndVars, sessVars>>

\* PrettyIncrementalEncoder.getstate
EncGet ==
    /\ esaved' = <<EncGetState(skip_next, skip_newlines, escape_count)>>
    /\ esavedFields' = EncFields
    /\ eop' = "getstate"
    /\ echunk' = <<>> /\ efinal' = FALSE /\ epre' = EncFields
    /\ eret' = <<>> /\ eerr' = "none"
    /\ UNCHANGED <<skip_next, skip_newlines, escape_count, efed, eout, eok>>
    /\ UNCHANGED <<decVars, fnVars, hndVars, sessVars>>

\* PrettyIncrementalEncoder.setstate, with a value getstate returned
EncSet ==
    /\ esaved # <<>>
    /\ LET s == EncSetState(esaved[1])
       IN  /\ skip_next' = s.skip_next
           /\ skip_newlines' = s.skip_newlines
           /\ escape_count' = s.escape_count
    /\ eop' = "setstate"
    /\ echunk' = <<>> /\ efinal' = FALSE /\ epre' = EncFields
    /\ eret' = <<>> /\ eerr' = "none"
    /\ UNCHANGED <<efed, eout, eok, esaved, esavedFields>>
    /\ UNCHANGED <<decVars, fnVars, hndVars, sessVars>>

(***************************************************************************)
(* Decoder session.                                                        *)
(***************************************************************************)
\* decoder.decode(data, final)
DecFeed ==
    /\ \E data \in SeqsUpTo(DecBytes, MaxDFed - Len(dfed)), final \in BOOLEAN :
          LET r == IncDecode(data, final, was_newline)
          IN  /\ was_newline' = r.was_newline
              /\ dchunk' = data /\ dret' = r.ret /\ dop' = "decode"
              /\ dfed' = dfed \o data
              /\ dout' = dout \o r.ret
    /\ UNCHANGED dsaved
    /\ UNCHANGED <<encVars, fnVars, hndVars, sessVars>>

\* PrettyIncrementalDecoder.reset
DecReset ==
    /\ was_newline' = FALSE
    /\ dfed' = <<>> /\ dout' = <<>> /\ dchunk' = <<>> /\ dret' = <<>>
    /\ dop' = "reset"
    /\ UNCHANGED dsaved
    /\ UNCHANGED <<encVars, fnVars, hndVars, sessVars>>

(***************************************************************************)
(* One-block use: decode_pretty_fn and encode_pretty_fn.                   *)
(***************************************************************************)
DecodeBlock ==
    /\ pc = "bytes"
    /\ txt' = decode_pretty_fn(inBytes)
    /\ pc' = "text"
    /\ UNCHANGED <<inBytes, outBytes, res>>
    /\ UNCHANGED <<encVars, decVars, hndVars, sessVars>>

EncodeBlock ==
    /\ pc = "text"
    /\ LET r == encode_pretty_fn(txt)
       IN  /\ res' = r.err
           /\ outBytes' = IF r.err = "none" THEN r.out ELSE <<>>
    /\ pc' = "encoded"
    /\ UNCHANGED <<inBytes, txt>>
    /\ UNCHANGED <<encVars, decVars, hndVars, sessVars>>

\* the encoding of the decoded text put in uppercase
EncodeUpperBlock ==
    /\ pc = "text"
    /\ LET r == encode_pretty_fn(UpperStr(txt))
       IN  /\ res' = r.err
           /\ outBytes' = IF r.err = "none" THEN r.out ELSE <<>>
    /\ pc' = "encodedUpper"
    /\ UNCHANGED <<inBytes, txt>>
    /\ UNCHANGED <<encVars, decVars, hndVars, sessVars>>

(***************************************************************************)
(* The error handler.                                                      *)
(***************************************************************************)
\* the handler called for a decoding error over object[start:end], a range
\* of bytes above 127
HandleDecodeError ==
    /\ hpc = "idle"
    /\ \E start \in 0..Len(obj), end \in 0..Len(obj) :
          /\ start < end
          /\ \A i \in (start + 1)..end : obj[i] >= 128
          /\ LET h == x_code_escape_errors(obj, start, end)
             IN  hsub' = h.sub /\ hresume' = h.resume
          /\ erange' = <<start, end>>
    /\ hpc' = "handled"
    /\ UNCHANGED <<obj, hout>>
    /\ UNCHANGED <<encVars, decVars, fnVars, sessVars>>

\* obj.decode("ascii", "uxreplace")
AsciiDecode ==
    /\ hpc = "idle"
    /\ hout' = ascii_decode_uxreplace(obj)
    /\ hpc' = "decoded"
    /\ UNCHANGED <<obj, erange, hsub, hresume>>
    /\ UNCHANGED <<encVars, decVars, fnVars, sessVars>>

(***************************************************************************)
(* Two sessions side by side.  Each session is an object with attributes   *)
(* of its own; a method touches only the attributes of self.               *)
(***************************************************************************)
Sessions == 1..2

\* the attributes after PrettyIncrementalEncoder.__init__
EncNew == [skip_next |-> FALSE, skip_newlines |-> FALSE, escape_count |-> 0]

\* the attributes after PrettyIncrementalDecoder.__init__
DecNew == [was_newline |-> FALSE]

\* a reset that leaves the escape capture as it was
EncResetOf_keepescape(s) ==
    [s EXCEPT !.skip_next = FALSE, !.skip_newlines = FALSE]

\* PrettyIncrementalEncoder.reset
EncResetOf(s) ==
    [s EXCEPT !.skip_next = FALSE, !.skip_newlines = FALSE, !.escape_count = 0]

\* PrettyIncrementalDecoder.reset
DecResetOf(s) == [s EXCEPT !.was_newline = FALSE]

\* encode or decode on session i, with final left at its default
SessFeed(i) ==
    /\ IF kind[i] = "enc"
       THEN \E data \in SeqsUpTo(PairChars, MaxStep) :
               LET s == sess[i]
                   r == IncEncode(data, FALSE, s.skip_next, s.skip_newlines,
                                  s.escape_count)
               IN  sess' = [sess EXCEPT ![i] =
                               [skip_next |-> r.skip_next,
                                skip_newlines |-> r.skip_newlines,
                                escape_count |-> r.escape_count]]
       ELSE \E data \in SeqsUpTo(PairBytes, MaxStep) :
               LET r == IncDecode(data, FALSE, sess[i].was_newline)
               IN  sess' = [sess EXCEPT ![i] = [was_newline |-> r.was_newline]]
    /\ acted' = i /\ sop' = "feed" /\ spre' = sess[i]
    /\ UNCHANGED <<kind, ssaved>>
    /\ UNCHANGED <<encVars, decVars, fnVars, hndVars>>

\* a reset that clears every session of the class, as attributes kept on the
\* class would be
SessReset_shared(i) ==
    /\ sess' = [j \in Sessions |->
                   IF kind[j] # kind[i] THEN sess[j]
                   ELSE IF kind[j] = "enc" THEN EncResetOf(sess[j])
                   ELSE DecResetOf(sess[j])]
    /\ acted' = i /\ sop' = "reset" /\ spre' = sess[i]
    /\ UNCHANGED <<kind, ssaved>>
    /\ UNCHANGED <<encVars, decVars, fnVars, hndVars>>

\* reset on session i
SessReset(i) ==
    /\ sess' = [sess EXCEPT ![i] =
                   IF kind[i] = "enc" THEN EncResetOf(sess[i]) ELSE DecResetOf(sess[i])]
    /\ acted' = i /\ sop' = "reset" /\ spre' = sess[i]
    /\ UNCHANGED <<kind, ssaved>>
    /\ UNCHANGED <<encVars, decVars, fnVars, hndVars>>

\* getstate on session i
SessGet(i) ==
    /\ ssaved' = <<i, IF kind[i] = "enc"
                      THEN EncGetState(sess[i].skip_next, sess[i].skip_newlines,
                                       sess[i].escape_count)
                      ELSE DecGetState(sess[i].was_newline)>>
    /\ acted' = i /\ sop' = "getstate" /\ spre' = sess[i]
    /\ UNCHANGED <<kind, sess>>
    /\ UNCHANGED <<encVars, decVars, fnVars, hndVars>>

\* setstate on session i, with the value its getstate returned
SessSet(i) ==
    /\ ssaved # <<>> /\ ssaved[1] = i
    /\ sess' = [sess EXCEPT ![i] =
                   IF kind[i] = "enc" THEN EncSetState(ssaved[2])
                   ELSE [was_newline |-> DecSetState(ssaved[2])]]
    /\ acted' = i /\ sop' = "setstate" /\ spre' = sess[i]
    /\ UNCHANGED <<kind, ssaved>>
    /\ UNCHANGED <<encVars, decVars, fnVars, hndVars>>

(***************************************************************************)
(* Specifications.                                                         *)
(***************************************************************************)
Init == EncInit /\ DecInit /\ FnIdle /\ HndIdle /\ SessIdle

\* an encoder session, every chunk of which is recorded
NextChunks == EncFeed \/ EncReset
SpecChunks == Init /\ [][NextChunks]_vars

\* an encoder session
Next == EncEncode \/ EncReset
Spec == Init /\ [][Next]_vars

\* an encoder session fed short chunks of the wider sample of characters
NextChars == EncStep \/ EncReset
SpecChars == Init /\ [][NextChars]_vars

\* an encoder session with getstate and setstate
NextState == EncEncode \/ EncReset \/ EncGet \/ EncSet
SpecState == Init /\ [][NextState]_vars

\* a decoder session, every chunk of which is recorded
NextDec == DecFeed \/ DecReset
SpecDec == Init /\ [][NextDec]_vars

\* decode then encode of one block of bytes
InitRoundTrip ==
    /\ EncInit /\ DecInit /\ HndIdle /\ SessIdle
    /\ inBytes \in ByteInputs
    /\ txt = <<>> /\ outBytes = <<>> /\ res = "none" /\ pc = "bytes"
NextRoundTrip == DecodeBlock \/ EncodeBlock
SpecRoundTrip == InitRoundTrip /\ [][NextRoundTrip]_vars

\* encode of one block of ASCII text
InitAscii ==
    /\ EncInit /\ DecInit /\ HndIdle /\ SessIdle
    /\ txt \in AsciiInputs
    /\ inBytes = <<>> /\ outBytes = <<>> /\ res = "none" /\ pc = "text"
NextAscii == EncodeBlock
SpecAscii == InitAscii /\ [][NextAscii]_vars

\* encode of one block of short text
InitText ==
    /\ EncInit /\ DecInit /\ HndIdle /\ SessIdle
    /\ txt \in TextInputs
    /\ inBytes = <<>> /\ outBytes = <<>> /\ res = "none" /\ pc = "text"
NextText == EncodeBlock
SpecText == InitText /\ [][NextText]_vars

\* one byte above 127: decode, then encode as written and in uppercase
InitEscape ==
    /\ EncInit /\ DecInit /\ HndIdle /\ SessIdle
    /\ inBytes \in {<<b>> : b \in 128..255}
    /\ txt = <<>> /\ outBytes = <<>> /\ res = "none" /\ pc = "bytes"
NextEscape == DecodeBlock \/ EncodeBlock \/ EncodeUpperBlock
SpecEscape == InitEscape /\ [][NextEscape]_vars

\* the error handler on a decoding error
InitHandler ==
    /\ EncInit /\ DecInit /\ FnIdle /\ SessIdle
    /\ obj \in SeqsUpTo(ObjSample, MaxObj)
    /\ erange = <<0, 0>> /\ hsub = <<>> /\ hresume = 0 /\ hout = <<>> /\ hpc = "idle"
NextHandler == HandleDecodeError \/ AsciiDecode
SpecHandler == InitHandler /\ [][NextHandler]_vars

\* two sessions, each an encoder or a decoder, called in any order
InitSessions ==
    /\ EncInit /\ DecInit /\ FnIdle /\ HndIdle
    /\ kind \in {<<"enc", "enc">>, <<"enc", "dec">>, <<"dec", "dec">>}
    /\ sess = [i \in Sessions |-> IF kind[i] = "enc" THEN EncNew ELSE DecNew]
    /\ acted = 0 /\ sop = "init" /\ spre = <<>>
    /\ ssaved = <<>>
NextSessions ==
    \E i \in Sessions : SessFeed(i) \/ SessReset(i) \/ SessGet(i) \/ SessSet(i)
SpecSessions == InitSessions /\ [][NextSessions]_vars

(***************************************************************************)
(* Reference definitions used by the properties.                           *)
(***************************************************************************)
IsNewlineByte(b) == b \in {LF, CR}

RECURSIVE Flatten(_, _, _)
\* the concatenation of the sequences ss[lo], ..., ss[hi]
Flatten(ss, lo, hi) ==
    IF lo > hi THEN <<>>
    ELSE IF lo = hi THEN ss[lo]
    ELSE LET mid == (lo + hi) \div 2
         IN  Flatten(ss, lo, mid) \o Flatten(ss, mid + 1, hi)

\* seq with every maximal run of CR/LF replaced by one LF
CollapseNewlines(seq) ==
    Flatten([i \in 1..Len(seq) |->
                IF ~IsNewlineByte(seq[i]) THEN <<seq[i]>>
                ELSE IF i = 1 \/ ~IsNewlineByte(seq[i - 1]) THEN <<LF>>
                ELSE <<>>], 1, Len(seq))

\* the glyphs of bs with one break after every maximal run of CR/LF, also
\* after a run that ends bs
GlyphsBreakAfterEveryRun(bs) ==
    Flatten([i \in 1..Len(bs) |->
                byte_to_chars[bs[i]] \o
                (IF IsNewlineByte(bs[i]) /\ (i = Len(bs) \/ ~IsNewlineByte(bs[i + 1]))
                 THEN <<LF>> ELSE <<>>)], 1, Len(bs))

\* the glyphs of bs with one break after every maximal run of CR/LF that a
\* further byte follows
GlyphsBreakAfterInnerRun(bs) ==
    Flatten([i \in 1..Len(bs) |->
                byte_to_chars[bs[i]] \o
                (IF IsNewlineByte(bs[i]) /\ i < Len(bs) /\ ~IsNewlineByte(bs[i + 1])
                 THEN <<LF>> ELSE <<>>)], 1, Len(bs))

\* for each byte, the prefix and its two uppercase hex digits
PerByteEscapes(bs) ==
    Flatten([i \in 1..Len(bs) |-> <<BYTESTRING_CHARACTER>> \o HexUpper2(bs[i])],
            1, Len(bs))

\* bs with each byte above 127 replaced by the prefix and its two uppercase
\* hex digits
AsciiWithEscapes(bs) ==
    Flatten([i \in 1..Len(bs) |->
                IF bs[i] < 128 THEN <<bs[i]>>
                ELSE <<BYTESTRING_CHARACTER>> \o HexUpper2(bs[i])], 1, Len(bs))

(***************************************************************************)
(* Properties.                                                             *)
(***************************************************************************)

\* C1 (as stated): while every feed of an encoder session has returned, the
\* bytes returned so far are the encoding of the whole fed text as one block,
\* which does not fail, and the session's attributes are the block's final
\* state.  Checked under SpecChunks.
C1_EncoderChunkInvariance ==
    eok =>
        LET r == encode_pretty(efed, FALSE, FALSE, 0)
        IN  /\ r.err = "none"
            /\ eout = r.out
            /\ EncFields = <<r.skip_next, r.skip_newlines, r.escape_count>>

\* C2: the text a decoder session has returned since its start or reset is
\* the decoding of all the bytes fed as one block, and was_newline is the
\* block's final flag, however the bytes were cut in chunks.  Checked under
\* SpecDec.
C2_DecoderChunkInvariance ==
    LET r == decode_pretty(dfed, FALSE)
    IN  dout = r.out /\ was_newline = r.was_newline

\* C2 witness: a session fed CR in one chunk and LF, A in the next
C2_Witness ==
    /\ dop = "decode" /\ dfed = <<65, CR, LF, 65>> /\ dchunk = <<LF, 65>>
    /\ dout = <<65, GLYPH_240A, GLYPH_240D, LF, 65>>

\* C3: encoding the decoded text of a byte string without CR and LF gives the
\* byte string back.  Checked under SpecRoundTrip.
C3_RoundTrip ==
    (pc = "encoded" /\ \A i \in 1..Len(inBytes) : ~IsNewlineByte(inBytes[i]))
        => (res = "none" /\ outBytes = inBytes)

\* C3 witness: tab, "$" and a byte above 127 went through the round trip
C3_Witness ==
    pc = "encoded" /\ inBytes = <<9, 36, 200>> /\ outBytes = <<9, 36, 200>>
        /\ txt = <<9, TAB_ARROW, 9252, BYTESTRING_CHARACTER, 99, 56>>

\* C4: encoding the decoded text of any byte string gives the byte string
\* with every maximal run of CR/LF replaced by one LF.  Checked under
\* SpecRoundTrip.
C4_RoundTripCollapse ==
    pc = "encoded" => (res = "none" /\ outBytes = CollapseNewlines(inBytes))

\* C4 witness: a CR LF run between two bytes above 127
C4_Witness ==
    pc = "encoded" /\ \E a \in {128, 200, 255}, b \in {128, 200, 255} :
        inBytes = <<a, CR, b>> /\ outBytes = <<a, LF, b>>

\* C5 (as stated): the decoded text has each byte's glyph and exactly one
\* break after every run of CR/LF, wherever the run stands, also at the end.
\* Checked under SpecRoundTrip.
C5_BreakAfterEveryRun ==
    pc # "bytes" => txt = GlyphsBreakAfterEveryRun(inBytes)

\* C5 (amended): the decoded text has each byte's glyph and exactly one break
\* after every run of CR/LF that another byte follows; a run that ends the
\* input gives its glyphs and no break.
C5_BreakAfterInnerRun ==
    pc # "bytes" => txt = GlyphsBreakAfterInnerRun(inBytes)

\* C5 witness: CR LF CR LF alone is decoded to its four glyphs
C5_Witness ==
    /\ pc = "text" /\ inBytes = <<CR, LF, CR, LF>>
    /\ txt = <<GLYPH_240A, GLYPH_240D, GLYPH_240A, GLYPH_240D>>

\* C6: a feed raises the error of the unfinished escape exactly when final is
\* set and the chunk, consumed without error, leaves 1 or 2 hex digits
\* expected.  Checked under Spec.
C6_FinalizationError ==
    eop = "encode" =>
        LET r == encode_pretty(echunk, epre[1], epre[2], epre[3])
        IN  (eerr = "RuntimeError")
                <=> (efinal /\ r.err = "none" /\ r.escape_count \in {1, 2})

\* C6 witness: a final chunk of the prefix and one hex digit raised the error
C6_Witness ==
    /\ eop = "encode" /\ efinal /\ echunk = <<BYTESTRING_CHARACTER, 99>>
    /\ epre = <<FALSE, FALSE, 0>> /\ eerr = "RuntimeError" /\ escape_count = 1

\* C7 (as stated): after setstate with the value getstate returned, the
\* attributes are those getstate packed.  Checked under SpecState.
C7_SaveRestoreExact ==
    eop = "setstate" => EncFields = esavedFields

\* C8: encoding ASCII text never fails and gives its characters' bytes with
\* every maximal run of CR/LF replaced by one LF; so one byte per character
\* when no two CR/LF are adjacent, and the text itself when it has none.
\* Checked under SpecAscii.
C8_AsciiAgreement ==
    pc = "encoded" =>
        /\ res = "none"
        /\ outBytes = CollapseNewlines(txt)
        /\ (\A i \in 1..(Len(txt) - 1) :
                ~(IsNewlineByte(txt[i]) /\ IsNewlineByte(txt[i + 1])))
             => Len(outBytes) = Len(txt)
        /\ (\A i \in 1..Len(txt) : ~IsNewlineByte(txt[i])) => outBytes = txt

\* C8 witness: the 128 ASCII characters in order, and a text with CR LF
C8_Witness ==
    pc = "encoded" /\
        \/ txt = every_ascii_string /\ Len(outBytes) = 128
        \/ txt = <<65, CR, LF>> /\ outBytes = <<65, LF>>

\* C9: a byte above 127 is decoded to the prefix and its two lowercase hex
\* digits, and that text, as written or in uppercase, is encoded to the byte.
\* Checked under SpecEscape.
C9_EscapeGrammar ==
    /\ pc # "bytes" =>
          txt = <<BYTESTRING_CHARACTER, LowerDigit(inBytes[1] \div 16),
                  LowerDigit(inBytes[1] % 16)>>
    /\ pc \in {"encoded", "encodedUpper"} => (res = "none" /\ outBytes = inBytes)

\* C9 witness: byte 200, decoded to the prefix and c8, encoded from C8
C9_Witness ==
    /\ pc = "encodedUpper" /\ inBytes = <<200>> /\ outBytes = <<200>>
    /\ UpperStr(txt) = <<BYTESTRING_CHARACTER, 67, 56>>

\* C10 (as stated): for a decoding error over [start, end) the handler
\* returns end and, for each byte of the range in order, the prefix and the
\* byte's two uppercase hex digits; and an ASCII decode with the handler
\* keeps the ASCII text and replaces each other byte so.  Checked under
\* SpecHandler.
C10_SubstitutionPerByte ==
    /\ hpc = "handled" =>
          /\ hresume = erange[2]
          /\ hsub = PerByteEscapes(SubSeq(obj, erange[1] + 1, erange[2]))
    /\ hpc = "decoded" => hout = AsciiWithEscapes(obj)

\* C11: after reset a session has the attributes of a new session of its
\* class (all of an encoder's, escape capture and pending skip included; the
\* decoder's newline flag), so every later call behaves as on a new session.
C11_ResetRestoresInitial ==
    sop = "reset" =>
        sess[acted] = IF kind[acted] = "enc" THEN EncNew ELSE DecNew

\* C11 witness: an encoder is reset in the middle of an escape capture with
\* a skip pending, the state an unterminated-escape error leaves behind.
C11_Witness ==
    /\ sop = "reset" /\ kind[acted] = "enc"
    /\ spre.escape_count = 1 /\ spre.skip_next
    /\ sess[acted] = EncNew

\* C12: a call on one session changes the attributes of no other session.
C12_SessionIsolation ==
    [][\A j \in Sessions : j # acted' => sess'[j] = sess[j]]_vars

\* C12 witness: two encoders, both away from their initial state, the
\* second just reset while the first is in the middle of an escape capture.
C12_Witness ==
    /\ kind = <<"enc", "enc">> /\ acted = 2 /\ sop = "reset"
    /\ spre.skip_newlines
    /\ sess[1].escape_count = 1

\* the loop of the last encode call just before the last character of its
\* chunk, and that character
Before == encode_pretty(SubSeq(echunk, 1, Len(echunk) - 1), epre[1], epre[2], epre[3])
LastChar == echunk[Len(echunk)]

\* the last call was an encode whose loop consumed the last character of
\* the chunk without an exception
Consumed ==
    /\ eop = "encode" /\ echunk # <<>>
    /\ eerr \in {"none", "RuntimeError"}

\* C13: a newline option (CR, LF, either glyph) emits one LF and sets the
\* suppression flag when the flag is clear and emits nothing when it is set,
\* whichever chunk the previous newline came in; after any other character
\* the flag is clear.
C13_NewlineSuppression ==
    Consumed =>
        /\ LastChar \in NewlineOptions =>
              /\ skip_newlines
              /\ eerr = "none" =>
                    eret = Before.out \o (IF Before.skip_newlines THEN <<>> ELSE <<LF>>)
        /\ LastChar \notin NewlineOptions => ~skip_newlines

\* C13 (amended): the same for a character that is not skipped after a
\* continuation mark, the flag being cleared by any character other than a
\* newline option and the continuation mark.
C13_NewlineSuppressionUnskipped ==
    Consumed /\ ~Before.skip_next =>
        /\ LastChar \in NewlineOptions =>
              /\ skip_newlines
              /\ eerr = "none" =>
                    eret = Before.out \o (IF Before.skip_newlines THEN <<>> ELSE <<LF>>)
        /\ LastChar \notin NewlineOptions \cup {NEWLINE_CHARACTER} => ~skip_newlines

\* C13 witness: a newline glyph arrives alone in a chunk while the flag is
\* set by an earlier chunk and nothing is returned.
C13_Witness ==
    /\ Consumed /\ eerr = "none" /\ Len(echunk) = 1
    /\ LastChar = GLYPH_240D
    /\ epre = <<FALSE, TRUE, 0>>
    /\ eret = <<>> /\ skip_newlines

\* the last encode call and a call with the same final flag on the chunk
\* without its first n characters, starting with no skip pending
SameAsWithout(n) ==
    LET r == IncEncode(SubSeq(echunk, n + 1, Len(echunk)), efinal,
                       FALSE, epre[2], epre[3])
    IN  /\ eerr = r.err
        /\ eret = r.ret
        /\ eerr \in {"none", "RuntimeError"} =>
              EncFields = <<r.skip_next, r.skip_newlines, r.escape_count>>

CollapseRuns(seq) ==
    LET inRun(i) == seq[i] \in {CR, LF, NEWLINE_CHARACTER}
    IN  Flatten([i \in 1..Len(seq) |->
                    IF ~inRun(i) THEN <<seq[i]>>
                    ELSE IF i = 1 \/ ~inRun(i - 1) THEN <<LF>>
                    ELSE <<>>], 1, Len(seq))

NoPrefix(seq) == \A i \in 1..Len(seq) : seq[i] # BYTESTRING_CHARACTER

\* C15: in a text encoded in one block every maximal run of CR, LF and
\* continuation marks becomes exactly one LF byte, the characters around it
\* encoded as they are without the run.  Checked under SpecText.
C15_RunsToOneLF ==
    pc = "encoded" /\ NoPrefix(txt) =>
        res = "none" /\ outBytes = CollapseRuns(txt)

\* C16: the escape prefix met while a capture is in progress, begun in this
\* chunk or an earlier one, makes the call fail and return nothing; met with
\* no capture in progress it starts a capture of two digits and writes no
\* byte itself.
C16_NestedPrefix ==
    eop = "encode" /\ echunk # <<>> /\ Before.err = "none"
        /\ LastChar = BYTESTRING_CHARACTER =>
        IF Before.escape_count > 0
        THEN eerr = "TypeError" /\ eret = <<>>
        ELSE /\ eerr = (IF efinal THEN "RuntimeError" ELSE "none")
             /\ escape_count = 2
             /\ eerr = "none" => eret = Before.out

\* C16 (amended): the same for a prefix that is not the character skipped
\* after a continuation mark.
C16_NestedPrefixUnskipped ==
    eop = "encode" /\ echunk # <<>> /\ Before.err = "none"
        /\ LastChar = BYTESTRING_CHARACTER /\ ~Before.skip_next =>
        IF Before.escape_count > 0
        THEN eerr = "TypeError" /\ eret = <<>>
        ELSE /\ eerr = (IF efinal THEN "RuntimeError" ELSE "none")
             /\ escape_count = 2
             /\ eerr = "none" => eret = Before.out

\* C16 witness: a prefix alone in a chunk, one digit of a capture begun in
\* an earlier chunk still expected: the call fails.
C16_Witness ==
    /\ eop = "encode" /\ echunk = <<BYTESTRING_CHARACTER>>
    /\ epre = <<FALSE, FALSE, 1>>
    /\ eerr = "TypeError" /\ eret = <<>>

\* the characters int(..., 16) reads as digits
HexChars == (48..57) \cup (65..70) \cup (97..102)

\* C17: a character that is neither a hex digit nor a continuation mark, a
\* newline option or the prefix, consumed as the first or the second digit
\* of a capture, in the chunk of the prefix or a later one, makes the call
\* fail at once and return nothing.  Checked under SpecChars.
C17_NonHexDigit ==
    eop = "encode" /\ echunk # <<>> /\ Before.err = "none"
        /\ ~Before.skip_next /\ Before.escape_count > 0
        /\ LastChar \notin HexChars \cup NewlineOptions
                             \cup {NEWLINE_CHARACTER, BYTESTRING_CHARACTER} =>
        eerr \notin {"none", "RuntimeError"} /\ eret = <<>>

\* the text ends in the middle of an escape capture
EndsInCapture(text) ==
    LET r == encode_pretty_fn(text)
    IN  r.err = "none" /\ r.escape_count # 0

\* C18: encoding a whole text in one call fails when the text ends in the
\* middle of an escape capture.  Checked under SpecText.
C18_OneShotFinalization ==
    pc = "encoded" /\ EndsInCapture(txt) => res # "none"

\* C19: a decoder session writes a break only when it consumes a byte other
\* than CR and LF while was_newline is set, right before the glyph of that
\* byte: whatever the chunks, the text returned so far does not end with a
\* break, has no two breaks side by side, has one break for every CR/LF
\* run already followed by another byte, and a chunk's text starts with a
\* break exactly when the chunk starts with such a byte and the byte before
\* the chunk was CR or LF.
C19_DeferredBreak ==
    LET prevNL == Len(dfed) > Len(dchunk) /\ IsNewlineByte(dfed[Len(dfed) - Len(dchunk)])
        glyphNL == {GLYPH_240D, GLYPH_240A}
    IN  /\ dout # <<>> => dout[Len(dout)] # LF
        /\ \A i \in 1..Len(dout) :
              dout[i] = LF =>
                  /\ i > 1 /\ dout[i - 1] \in glyphNL
                  /\ i < Len(dout) /\ dout[i + 1] \notin glyphNL \cup {LF}
        /\ Cardinality({i \in 1..Len(dout) : dout[i] = LF})
              = Cardinality({i \in 2..Len(dfed) :
                                ~IsNewlineByte(dfed[i]) /\ IsNewlineByte(dfed[i - 1])})
        /\ was_newline = (dfed # <<>> /\ IsNewlineByte(dfed[Len(dfed)]))
        /\ dop = "decode" =>
              IF dchunk = <<>> THEN dret = <<>>
              ELSE (dret[1] = LF) = (prevNL /\ ~IsNewlineByte(dchunk[1]))

\* C19 witness: A and CR fed, no break returned yet; then A alone in a
\* chunk, whose text starts with the break.
C19_Witness ==
    /\ dop = "decode" /\ dfed = <<65, CR, 65>> /\ dchunk = <<65>>
    /\ dret = <<LF, 65>>
    /\ dout = <<65, GLYPH_240A, LF, 65>>

\* C20: an encode call that fails on a character of its chunk (nested
\* prefix, digits that do not parse, character outside the table) leaves
\* the attributes as they were before the call and returns nothing.
C20_StateUnchangedOnFailure ==
    eop = "encode" /\ eerr \in {"TypeError", "ValueError", "OverflowError", "KeyError"} =>
        EncFields = epre /\ eret = <<>>

\* C20 witness: LF then a character outside the table in one chunk: the LF
\* was processed, yet the suppression flag is still clear after the failure.
C20_Witness ==
    /\ eop = "encode" /\ eerr = "KeyError"
    /\ echunk = <<LF, 9731>> /\ epre = <<FALSE, FALSE, 0>>
    /\ EncFields = <<FALSE, FALSE, 0>> /\ eret = <<>>

====
